---- MODULE Spec2Model ----
(***************************************************************************)
(* A model of the SEC EDGAR rubrics environment:                           *)
(*   - the retry helper call_with_exponential_backoff                      *)
(*     (environment/server.py),                                            *)
(*   - the backend session state and its request handlers                  *)
(*     (environment/server.py),                                            *)
(*   - the tool-forwarding front (server/main.py).                         *)
(* Four specifications share the variables: SpecRetry runs one call of     *)
(* the retry helper, Spec runs the backend handlers, SpecFetch runs        *)
(* /get_filing_content over all modelled filing URLs, SpecFront runs the   *)
(* front's tools against an abstract HTTP backend.                         *)
(***************************************************************************)
EXTENDS Integers, Sequences, FiniteSets, TLC

\* ------------------------------------------------------------------ bounds
\* Largest max_retries a call is given (the smallest is -1: an empty loop).
MaxRetriesBound == 3
\* Largest initial_delay, max_delay and exponential_base a call is given.
MaxDelayBound == 3
MaxBaseBound == 3

\* ------------------------------------------------------- program constants
RateLimitStatus == 429
DefaultMaxRetries == 5
DefaultInitialDelay == 1
DefaultMaxDelay == 60
DefaultBase == 2

None == "None"

Min(a, b) == IF a <= b THEN a ELSE b

RECURSIVE Pow(_, _)
Pow(b, n) == IF n = 0 THEN 1 ELSE b * Pow(b, n - 1)

Last(s) == s[Len(s)]

\* =========================================================================
\* call_with_exponential_backoff
\* =========================================================================
VARIABLES
    max_retries, initial_delay, max_delay, exponential_base, \* the keyword parameters
    attempt,          \* the for loop's index
    delay,            \* the local delay
    last_exception,   \* the local last_exception
    pc,               \* "start", "call", "sleep", "exit", "returned", "raised"
    result,           \* what the call gave its caller
    events            \* history: the calls of func and the sleeps, in order

retryVars == <<max_retries, initial_delay, max_delay, exponential_base,
               attempt, delay, last_exception, pc, result, events>>

\* What one await of func can do: return a value, raise httpx.HTTPStatusError
\* with some status code, or raise any other exception.
Values == {"v1", "v2"}
StatusCodes == {RateLimitStatus, 500}
FuncOutcomes ==
    [kind : {"ok"}, value : Values]
      \cup [kind : {"HTTPStatusError"}, status : StatusCodes]
      \cup [kind : {"Exception"}]

IsFailure(out) == out.kind # "ok"

\* last_exception: Optional[Exception] = None
NoException == [exc |-> [kind |-> "None"], attempt |-> -1]

\* except httpx.HTTPStatusError as e: if e.response.status_code == 429
IsRateLimitAnyStatus(out) == out.kind = "HTTPStatusError"
IsRateLimit(out) == out.kind = "HTTPStatusError" /\ out.status = RateLimitStatus

\* if attempt < max_retries
HasRetriesLeftOffByOne(att, maxr) == att <= maxr
HasRetriesLeft(att, maxr) == att < maxr

\* range(max_retries + 1) yields index att
InRange(att, maxr) == att >= 0 /\ att < maxr + 1

\* delay = min(delay * exponential_base, max_delay)
NextDelay(d, base, maxd) == Min(d * base, maxd)

\* return await func(...): the value goes to the caller and the loop ends.
ReturnKeepLooping(v) ==
    /\ pc' = IF InRange(attempt + 1, max_retries) THEN "call" ELSE "exit"
    /\ attempt' = attempt + 1
    /\ result' = [kind |-> "return", value |-> v]
    /\ UNCHANGED <<delay, last_exception>>
Return(v) ==
    /\ pc' = "returned"
    /\ result' = [kind |-> "return", value |-> v]
    /\ UNCHANGED <<attempt, delay, last_exception>>

\* raise: the exception caught in this attempt goes to the caller.
Raise(out, le) ==
    /\ pc' = "raised"
    /\ result' = [kind |-> "raise", exc |-> out, attempt |-> attempt]
    /\ last_exception' = le
    /\ UNCHANGED <<attempt, delay>>

\* The for loop is entered, or is empty (max_retries + 1 <= 0).
Enter ==
    /\ pc = "start"
    /\ pc' = IF InRange(attempt, max_retries) THEN "call" ELSE "exit"
    /\ UNCHANGED <<max_retries, initial_delay, max_delay, exponential_base,
                   attempt, delay, last_exception, result, events>>

\* One pass of the loop body up to its return, raise or await asyncio.sleep.
Attempt(out) ==
    /\ pc = "call"
    /\ events' = Append(events, [ev |-> "call", n |-> attempt, out |-> out])
    /\ IF out.kind = "ok"
         THEN Return(out.value)
         ELSE IF IsRateLimit(out)
           THEN IF HasRetriesLeft(attempt, max_retries)
                  THEN /\ pc' = "sleep"
                       /\ last_exception' = [exc |-> out, attempt |-> attempt]
                       /\ UNCHANGED <<attempt, delay, result>>
                  ELSE Raise(out, [exc |-> out, attempt |-> attempt])
           ELSE Raise(out, last_exception)
    /\ UNCHANGED <<max_retries, initial_delay, max_delay, exponential_base>>

\* await asyncio.sleep(delay) completes; the next delay is computed and the
\* loop goes to its next index.
Sleep ==
    /\ pc = "sleep"
    /\ events' = Append(events, [ev |-> "sleep", d |-> delay])
    /\ delay' = NextDelay(delay, exponential_base, max_delay)
    /\ attempt' = attempt + 1
    /\ pc' = IF InRange(attempt + 1, max_retries) THEN "call" ELSE "exit"
    /\ UNCHANGED <<max_retries, initial_delay, max_delay, exponential_base,
                   last_exception, result>>

\* Lines 86-89: the loop ended without a return or a raise.
ExitReturnsNone ==
    /\ pc = "exit"
    /\ pc' = IF last_exception # NoException THEN "raised" ELSE "returned"
    /\ result' = IF last_exception # NoException
                   THEN [kind |-> "raise", exc |-> last_exception.exc,
                         attempt |-> last_exception.attempt]
                   ELSE [kind |-> "return", value |-> None]
    /\ UNCHANGED <<max_retries, initial_delay, max_delay, exponential_base,
                   attempt, delay, last_exception, events>>
Exit ==
    /\ pc = "exit"
    /\ pc' = "raised"
    /\ result' = IF last_exception # NoException
                   THEN [kind |-> "raise", exc |-> last_exception.exc,
                         attempt |-> last_exception.attempt]
                   ELSE [kind |-> "raise", exc |-> [kind |-> "RuntimeError"],
                         attempt |-> -1]
    /\ UNCHANGED <<max_retries, initial_delay, max_delay, exponential_base,
                   attempt, delay, last_exception, events>>

\* --------------------------------------------------------- history helpers
Calls == SelectSeq(events, LAMBDA e : e.ev = "call")
Sleeps == SelectSeq(events, LAMBDA e : e.ev = "sleep")
NumAttempts == Len(Calls)
NumWaits == Len(Sleeps)

AllRateLimited(cs) == \A i \in 1..Len(cs) : IsFailure(cs[i].out) /\ cs[i].out.kind = "HTTPStatusError" /\ cs[i].out.status = RateLimitStatus

\* =========================================================================
\* Backend: _EnvState and the request handlers of environment/server.py
\* =========================================================================
VARIABLES
    search_count, fetch_count, submitted_answer,  \* the fields of state
    grading,   \* the evaluate requests suspended in await rubric.grade(...)
    last,      \* the handler step taken last: its request, the state and the
               \* suspended evaluations it began with, the library calls it made
    resp,      \* the HTTP response that step sent
    answered,  \* history: the final_answer of the latest /answer request since
               \* the latest /setup, None when there was none
    succeeded  \* history: how many search_company and get_filings requests
               \* (.search) and get_filing_content requests (.fetch) have been
               \* answered 200 since the latest /setup

stateVars == <<search_count, fetch_count, submitted_answer>>
backendVars == <<search_count, fetch_count, submitted_answer, grading, last, resp,
                 answered, succeeded>>

\* ------------------------------------------------------------------ bounds
\* The counters are explored up to MaxCount, the suspended evaluations up to
\* MaxInflight, the path of a filing URL up to MaxSegments segments.
MaxCount == 2
MaxInflight == 1
MaxSegments == 2

\* ------------------------------------------------------- program constants
\* len(part) > 10
AccessionMinLen == 10
\* max_length = 50000
max_length == 50000

\* ---------------------------------------------------------------- strings
\* A string is the sequence of its characters.
Rep(c, n) == [i \in 1..n |-> c]

\* The least index from `from` on at which s holds one of cs; Len(s)+1 if none.
FindAny(s, cs, from) ==
    LET hits == {i \in from..Len(s) : s[i] \in cs}
    IN  IF hits = {} THEN Len(s) + 1
        ELSE CHOOSE i \in hits : \A j \in hits : i <= j

Contains(s, c) == \E i \in 1..Len(s) : s[i] = c

Letters == {"a", "h", "w"}
Digits == {"0", "1", "2", "3"}
SchemeChars == Letters \cup Digits \cup {"-"}

\* urllib.parse.urlsplit: the scheme is cut off at the first ":" when the text
\* before it starts with a letter and holds scheme characters only.
AfterScheme(url) ==
    LET i == FindAny(url, {":"}, 1)
    IN  IF /\ i <= Len(url)
           /\ i > 1
           /\ url[1] \in Letters
           /\ \A j \in 1..(i - 1) : url[j] \in SchemeChars
          THEN SubSeq(url, i + 1, Len(url))
          ELSE url

\* urlsplit: after a leading "//" the netloc runs to the next "/", "?" or "#".
HasNetloc(rest) == Len(rest) >= 2 /\ rest[1] = "/" /\ rest[2] = "/"
Netloc(rest) ==
    IF HasNetloc(rest) THEN SubSeq(rest, 3, FindAny(rest, {"/", "?", "#"}, 3) - 1)
    ELSE <<>>
AfterNetloc(rest) ==
    IF HasNetloc(rest)
      THEN SubSeq(rest, FindAny(rest, {"/", "?", "#"}, 3), Len(rest))
      ELSE rest

\* urlsplit raises ValueError("Invalid IPv6 URL") on a netloc with one bracket
\* but not the other.
UrlParseRaises(url) ==
    LET n == Netloc(AfterScheme(url))
    IN  Contains(n, "[") # Contains(n, "]")

\* urlparse(url).path: what is left before the first "#" or "?".
UrlPath(url) ==
    LET rest == AfterNetloc(AfterScheme(url))
    IN  SubSeq(rest, 1, FindAny(rest, {"#", "?"}, 1) - 1)

\* str.split("/")
RECURSIVE Split(_)
Split(s) ==
    LET i == FindAny(s, {"/"}, 1)
    IN  IF i > Len(s) THEN <<s>>
        ELSE <<SubSeq(s, 1, i - 1)>> \o Split(SubSeq(s, i + 1, Len(s)))

\* part.replace("-", "")
RemoveHyphens(part) == SelectSeq(part, LAMBDA c : c # "-")

\* len(part) > 10 and "-" in part
LooksLikeAccession(part) == Len(part) > AccessionMinLen /\ Contains(part, "-")

\* Lines 231-235: the loop over path_parts; accession stays None when no part
\* matches.
NoAccession == [found |-> FALSE, value |-> <<>>]
RECURSIVE FindAccession(_)
FindAccession(parts) ==
    IF parts = <<>> THEN NoAccession
    ELSE IF LooksLikeAccession(Head(parts))
      THEN [found |-> TRUE, value |-> RemoveHyphens(Head(parts))]
      ELSE FindAccession(Tail(parts))

\* if not accession: None and the empty string are both falsy.
Falsy(acc) == ~acc.found \/ acc.value = <<>>

\* ------------------------------------------------------------ the inputs
\* Path segments: short; 10 characters with a hyphen; 11 without a hyphen;
\* 11 with one; a 20-character accession number; 11 hyphens; empty.
SegShort == <<"a">>
SegTenHyphen == Rep("0", 4) \o <<"-">> \o Rep("1", 5)
SegElevenPlain == Rep("0", 11)
SegElevenHyphen == Rep("1", 5) \o <<"-">> \o Rep("2", 5)
SegAccession == Rep("0", 10) \o <<"-">> \o Rep("2", 2) \o <<"-">> \o Rep("3", 6)
SegHyphens == Rep("-", 11)
Segments == {<<>>, SegShort, SegTenHyphen, SegElevenPlain, SegElevenHyphen,
             SegAccession, SegHyphens}

RECURSIVE SeqsUpTo(_, _)
SeqsUpTo(S, n) ==
    IF n = 0 THEN {<<>>}
    ELSE LET shorter == SeqsUpTo(S, n - 1)
         IN  shorter \cup {Append(q, x) : q \in shorter, x \in S}

RECURSIVE SlashJoin(_)
SlashJoin(segs) ==
    IF segs = <<>> THEN <<>> ELSE <<"/">> \o Head(segs) \o SlashJoin(Tail(segs))

\* Nothing; scheme and host; scheme and a host that looks like an accession
\* number; scheme and a host with an unclosed bracket.
UrlPrefixes == {<<>>,
                <<"h", ":", "/", "/", "w">>,
                <<"h", ":", "/", "/">> \o SegAccession,
                <<"h", ":", "/", "/", "[", "a">>}
\* Nothing; a query or a fragment that looks like an accession number.
UrlSuffixes == {<<>>, <<"?">> \o SegAccession, <<"#">> \o SegAccession}

Urls == {p \o SlashJoin(segs) \o q :
            p \in UrlPrefixes, segs \in SeqsUpTo(Segments, MaxSegments),
            q \in UrlSuffixes}

Answers == {"", "X"}
Rubrics == {"rubric1", "rubric2"}
Queries == {"TSLA"}
FormTypes == {None, "", "10-K"}
Limits == {10}

\* What the filings library raises.
LibErrors == {[cls |-> "ValueError", msg |-> "not found"],
              [cls |-> "HTTPStatusError", msg |-> "429 Too Many Requests"]}
\* Company(...) as far as the handlers read it.
Companies == {[ticker |-> "TSLA", name |-> "Tesla", cik |-> 1318605]}
\* company.get_filings(...): filings with and without a filing date.
FilingA == [filing_date |-> "2024-01-31", form |-> "10-K", description |-> "annual",
            url |-> "u1", accession_number |-> "a1"]
FilingB == [filing_date |-> None, form |-> "8-K", description |-> "current",
            url |-> "u2", accession_number |-> "a2"]
FilingLists == {<<>>, <<FilingA>>, <<FilingB, FilingA>>}
\* filing.text, a string held as runs of equal characters: the text "aab" is
\* <<Run("a", 2), Run("b", 1)>>. No two neighbouring runs have the same
\* character and no run is empty.
Run(c, k) == [ch |-> c, n |-> k]
Texts == {<<>>,
          <<Run("a", 1)>>,
          <<Run("a", max_length - 1), Run("b", 1)>>,
          <<Run("a", max_length), Run("b", 1)>>,
          <<Run("a", max_length - 1), Run("b", 2)>>,
          <<Run("a", max_length - 1), Run("b", 1), Run("c", max_length)>>}
\* rubric.grade(...): evaluation.score and evaluation.report.
Scores == {0, 1}
Reports == {<<>>, <<"item">>}

Raised(e) == [kind |-> "raise", err |-> e]
Returned(v) == [kind |-> "ok", value |-> v]
LibOutcomes(vals) == {Returned(v) : v \in vals} \cup {Raised(e) : e \in LibErrors}

\* ----------------------------------------------------------- responses
Ok(body) == [status |-> 200, body |-> body]
\* raise HTTPException(status_code=..., detail=...)
HttpError(code, detail) == [status |-> code, body |-> [detail |-> detail]]
\* f"{operation} failed: {type(e).__name__}: {e}"
FailedDetail(operation, e) == <<operation, " failed: ", e.cls, ": ", e.msg>>
\* An exception no handler catches: the framework's 500.
InternalServerError == [status |-> 500, body |-> "Internal Server Error"]
\* No response yet: the handler is suspended.
Pending == [status |-> 0, body |-> "pending"]

Snapshot == [search_count |-> search_count, fetch_count |-> fetch_count,
             submitted_answer |-> submitted_answer]

Step(op, req, calls) ==
    [op |-> op, req |-> req, pre |-> Snapshot, inflight |-> grading, calls |-> calls]

\* _EnvState.__init__ and _EnvState.reset
resetKeepsAnswer(st) == [st EXCEPT !.search_count = 0, !.fetch_count = 0]
reset(st) ==
    [st EXCEPT !.search_count = 0, !.fetch_count = 0, !.submitted_answer = None]

InitialState == [search_count |-> 0, fetch_count |-> 0, submitted_answer |-> None]

SetState(st) ==
    /\ search_count' = st.search_count
    /\ fetch_count' = st.fetch_count
    /\ submitted_answer' = st.submitted_answer

\* ------------------------------------------------------------- handlers
\* POST /setup
setup ==
    /\ SetState(reset(Snapshot))
    /\ resp' = Ok([ok |-> TRUE])
    /\ last' = Step("setup", None, <<>>)
    /\ answered' = None
    /\ succeeded' = [search |-> 0, fetch |-> 0]
    /\ UNCHANGED grading

\* state.search_count += 1
BumpSearchWrongCounter ==
    /\ fetch_count' = fetch_count + 1
    /\ UNCHANGED <<search_count, submitted_answer>>
BumpSearch ==
    /\ search_count' = search_count + 1
    /\ UNCHANGED <<fetch_count, submitted_answer>>

\* state.fetch_count += 1
BumpFetchSetsOne ==
    /\ fetch_count' = 1
    /\ UNCHANGED <<search_count, submitted_answer>>
BumpFetch ==
    /\ fetch_count' = fetch_count + 1
    /\ UNCHANGED <<search_count, submitted_answer>>

\* POST /search_company: Company(req.query) returns a company or raises.
search_company(query, out) ==
    /\ search_count < MaxCount
    /\ last' = Step("search_company", query,
                    <<[fn |-> "Company", arg |-> query, out |-> out]>>)
    /\ IF out.kind = "ok"
         THEN /\ resp' = Ok(<<[ticker |-> out.value.ticker,
                               name |-> out.value.name,
                               cik |-> out.value.cik,
                               message |-> <<"Found company: ", out.value.name,
                                             " (", out.value.ticker, ")">>]>>)
              /\ BumpSearch
              /\ succeeded' = [succeeded EXCEPT !.search = @ + 1]
         ELSE /\ resp' = HttpError(500, FailedDetail("Company search", out.err))
              /\ UNCHANGED <<stateVars, succeeded>>
    /\ UNCHANGED <<grading, answered>>

\* Lines 200-212: one flat record per filing.
FilingRecord(f) ==
    [filing_date |-> IF f.filing_date # None THEN f.filing_date ELSE "",
     form_type |-> f.form,
     description |-> f.description,
     filing_url |-> f.url,
     accession_number |-> f.accession_number]

\* POST /get_filings: Company(req.ticker) and company.get_filings(...) return
\* the filings or one of them raises.
get_filings(ticker, form_type, limit, out) ==
    /\ search_count < MaxCount
    /\ last' = Step("get_filings",
                    [ticker |-> ticker, form_type |-> form_type, limit |-> limit],
                    <<[fn |-> "Company.get_filings", arg |-> ticker,
                       form |-> IF form_type \notin {None, ""} THEN form_type ELSE None,
                       limit |-> limit, out |-> out]>>)
    /\ IF out.kind = "ok"
         THEN /\ resp' = Ok([i \in 1..Len(out.value) |-> FilingRecord(out.value[i])])
              /\ BumpSearch
              /\ succeeded' = [succeeded EXCEPT !.search = @ + 1]
         ELSE /\ resp' = HttpError(500, FailedDetail("Get filings", out.err))
              /\ UNCHANGED <<stateVars, succeeded>>
    /\ UNCHANGED <<grading, answered>>

\* len(content)
RECURSIVE StrLen(_)
StrLen(s) == IF s = <<>> THEN 0 ELSE Head(s).n + StrLen(Tail(s))

\* content[:k]
RECURSIVE Slice(_, _)
Slice(s, k) ==
    IF s = <<>> \/ k <= 0 THEN <<>>
    ELSE IF Head(s).n >= k THEN <<Run(Head(s).ch, k)>>
    ELSE <<Head(s)>> \o Slice(Tail(s), k - Head(s).n)

\* s + t
StrConcat(s, t) ==
    IF s = <<>> THEN t
    ELSE IF t = <<>> THEN s
    ELSE IF Last(s).ch = Head(t).ch
      THEN SubSeq(s, 1, Len(s) - 1) \o <<Run(Head(t).ch, Last(s).n + Head(t).n)>>
             \o Tail(t)
      ELSE s \o t

\* "\n\n...[truncated]"
TruncationMarker ==
    <<Run("\n", 2), Run(".", 3), Run("[", 1), Run("t", 1), Run("r", 1), Run("u", 1),
      Run("n", 1), Run("c", 1), Run("a", 1), Run("t", 1), Run("e", 1), Run("d", 1),
      Run("]", 1)>>

\* Lines 249-251: content[:max_length] + "\n\n...[truncated]" when too long.
TruncateAtLimit(text) ==
    IF StrLen(text) >= max_length
      THEN StrConcat(Slice(text, max_length), TruncationMarker)
      ELSE text
Truncate(text) ==
    IF StrLen(text) > max_length
      THEN StrConcat(Slice(text, max_length), TruncationMarker)
      ELSE text

\* POST /get_filing_content: Filing(accession) and filing.text return the
\* text or one of them raises (out is not read when the library is not called).
get_filing_content(filing_url, out) ==
    /\ fetch_count < MaxCount
    /\ UNCHANGED <<grading, answered>>
    /\ IF UrlParseRaises(filing_url)
         THEN /\ last' = Step("get_filing_content", filing_url, <<>>)
              /\ resp' = HttpError(500,
                    FailedDetail("Get filing content",
                                 [cls |-> "ValueError", msg |-> "Invalid IPv6 URL"]))
              /\ UNCHANGED <<stateVars, succeeded>>
         ELSE LET accession == FindAccession(Split(UrlPath(filing_url)))
              IN  IF Falsy(accession)
                    THEN /\ last' = Step("get_filing_content", filing_url, <<>>)
                         /\ resp' = HttpError(400,
                               "Could not extract accession number from URL")
                         /\ UNCHANGED <<stateVars, succeeded>>
                    ELSE /\ last' = Step("get_filing_content", filing_url,
                               <<[fn |-> "Filing", arg |-> accession.value,
                                  out |-> out]>>)
                         /\ IF out.kind = "ok"
                              THEN /\ resp' = Ok([content |-> Truncate(out.value)])
                                   /\ BumpFetch
                                   /\ succeeded' = [succeeded EXCEPT !.fetch = @ + 1]
                              ELSE /\ resp' = HttpError(500,
                                         FailedDetail("Get filing content", out.err))
                                   /\ UNCHANGED <<stateVars, succeeded>>

\* POST /answer
answerKeepsFirst(final_answer) ==
    /\ submitted_answer' =
          IF submitted_answer = None THEN final_answer ELSE submitted_answer
    /\ UNCHANGED <<search_count, fetch_count, grading, succeeded>>
    /\ resp' = Ok([ok |-> TRUE, message |-> "Answer submitted"])
    /\ last' = Step("answer", final_answer, <<>>)
    /\ answered' = final_answer
answerReachesGrading(final_answer) ==
    /\ submitted_answer' = final_answer
    /\ grading' = [i \in 1..Len(grading) |->
                      [grading[i] EXCEPT !.submitted = final_answer]]
    /\ UNCHANGED <<search_count, fetch_count, succeeded>>
    /\ resp' = Ok([ok |-> TRUE, message |-> "Answer submitted"])
    /\ last' = Step("answer", final_answer, <<>>)
    /\ answered' = final_answer
answer(final_answer) ==
    /\ submitted_answer' = final_answer
    /\ UNCHANGED <<search_count, fetch_count, grading, succeeded>>
    /\ resp' = Ok([ok |-> TRUE, message |-> "Answer submitted"])
    /\ last' = Step("answer", final_answer, <<>>)
    /\ answered' = final_answer

\* if submitted is None
NoAnswer(submitted) == submitted = None

\* Lines 275-279: the no-answer response.
NoAnswerBodyCountsSwapped(searches, fetches) ==
    [reward |-> 0,
     content |-> <<"No answer submitted. Searches: ", fetches, ", Fetches: ", searches>>,
     done |-> FALSE]
NoAnswerBody(searches, fetches) ==
    [reward |-> 0,
     content |-> <<"No answer submitted. Searches: ", searches, ", Fetches: ", fetches>>,
     done |-> FALSE]

\* POST /evaluate up to its return or its await: the no-answer response, or
\* Rubric.from_dict(req.rubric) (which returns or raises) and the call of
\* rubric.grade(submitted), in which the handler is suspended.
evaluate(rubric, built) ==
    /\ NoAnswer(submitted_answer) \/ built.kind # "ok" \/ Len(grading) < MaxInflight
    /\ UNCHANGED <<stateVars, answered, succeeded>>
    /\ LET submitted == submitted_answer
       IN  IF NoAnswer(submitted)
             THEN /\ resp' = Ok(NoAnswerBody(search_count, fetch_count))
                  /\ last' = Step("evaluate", rubric, <<>>)
                  /\ UNCHANGED grading
             ELSE IF built.kind # "ok"
               THEN /\ resp' = InternalServerError
                    /\ last' = Step("evaluate", rubric,
                          <<[fn |-> "Rubric.from_dict", arg |-> rubric, out |-> built]>>)
                    /\ UNCHANGED grading
               ELSE /\ resp' = Pending
                    /\ last' = Step("evaluate", rubric,
                          <<[fn |-> "Rubric.from_dict", arg |-> rubric, out |-> built],
                            [fn |-> "Rubric.grade", arg |-> submitted,
                             rubric |-> rubric]>>)
                    /\ grading' = Append(grading,
                          [submitted |-> submitted, rubric |-> rubric])

\* Lines 285-286: reward and info from the evaluation.
EvaluationBody(ev) ==
    [reward |-> ev.score,
     info |-> [report |-> IF ev.report # <<>> THEN ev.report ELSE <<>>],
     done |-> TRUE]

\* POST /evaluate from its await on: rubric.grade of the i-th suspended
\* request returns an evaluation or raises.
evaluate_resumeClearsAnswer(i, out) ==
    /\ i \in 1..Len(grading)
    /\ grading' = [j \in 1..(Len(grading) - 1) |->
                      IF j < i THEN grading[j] ELSE grading[j + 1]]
    /\ submitted_answer' = None
    /\ UNCHANGED <<search_count, fetch_count, answered, succeeded>>
    /\ last' = [op |-> "evaluate_resume", req |-> grading[i].rubric,
                pre |-> Snapshot, inflight |-> grading, calls |-> <<>>,
                task |-> grading[i], out |-> out]
    /\ resp' = IF out.kind = "ok" THEN Ok(EvaluationBody(out.value))
               ELSE InternalServerError
evaluate_resume(i, out) ==
    /\ i \in 1..Len(grading)
    /\ grading' = [j \in 1..(Len(grading) - 1) |->
                      IF j < i THEN grading[j] ELSE grading[j + 1]]
    /\ UNCHANGED <<stateVars, answered, succeeded>>
    /\ last' = [op |-> "evaluate_resume", req |-> grading[i].rubric,
                pre |-> Snapshot, inflight |-> grading, calls |-> <<>>,
                task |-> grading[i], out |-> out]
    /\ resp' = IF out.kind = "ok" THEN Ok(EvaluationBody(out.value))
               ELSE InternalServerError

Evaluations == [score : Scores, report : Reports]
BuildOutcomes == {Returned("rubric"), Raised([cls |-> "ValueError", msg |-> "bad rubric"])}
GradeOutcomes == {Returned(ev) : ev \in Evaluations}
                   \cup {Raised([cls |-> "RuntimeError", msg |-> "grader failed"])}

\* Three filing URLs for the runs of all handlers together: one with an
\* accession number, one without, one the URL parser rejects.
SampleUrls == {<<"h", ":", "/", "/", "w">> \o SlashJoin(<<SegShort, SegAccession>>),
               SlashJoin(<<SegShort>>),
               <<"h", ":", "/", "/", "[", "a">> \o SlashJoin(<<SegAccession>>)}

\* =========================================================================
\* Front: the tools of server/main.py
\* =========================================================================
VARIABLES
    client,      \* http_client: "open", or "closed" after cleanup
    tool_call,   \* the tool invoked last and its arguments
    requests,    \* the HTTP requests that invocation issued, in order
    tool_out     \* what that invocation gave its caller: a value or a failure

frontVars == <<client, tool_call, requests, tool_out>>

\* The routes environment/server.py serves (lines 140-271).
BackendGetRoutes == {"/health"}
BackendPostRoutes == {"/setup", "/search_company", "/get_filings",
                      "/get_filing_content", "/answer", "/evaluate"}

\* A decoded JSON body as far as the tools read it: an object with some of the
\* fields of an evaluation result, an object with the content of a filing, an
\* error object {"detail": ...}, an object with a field of a type no
\* evaluation result has ("illtyped"), or a list.
ResultBodies ==
    {[shape |-> "object", fields |-> f] :
        f \in [reward : Scores, done : BOOLEAN]
                \cup [reward : Scores, done : BOOLEAN, content : {"No answer submitted"}]}
JsonBodies ==
    ResultBodies
      \cup {[shape |-> "object", fields |-> [content |-> "filing text"]],
            [shape |-> "object", fields |-> [detail |-> "error"]],
            [shape |-> "illtyped", fields |-> [reward |-> "not a number"]],
            [shape |-> "list", items |-> <<>>]}
NotJson == [shape |-> "undecodable"]
Bodies == JsonBodies \cup {NotJson}
NotFoundBody == [shape |-> "object", fields |-> [detail |-> "Not Found"]]

\* What one request to the backend can end in: no connection, a failure in
\* transit, or a response. A POST to a path the backend does not serve is
\* answered 404 by its router.
Exchanges(method, path) ==
    {[kind |-> "ConnectError"], [kind |-> "ReadTimeout"]}
      \cup (IF \/ method = "GET" /\ path \in BackendGetRoutes
               \/ method = "POST" /\ path \in BackendPostRoutes
              THEN [kind : {"response"}, status : {200, 400, 422, 500}, body : Bodies]
              ELSE {[kind |-> "response", status |-> 404, body |-> NotFoundBody]})

Value(v) == [kind |-> "return", value |-> v]
Failure(e) == [kind |-> "raise", exc |-> e]

\* await http_client.post(...) / .get(...): the exchange, or RuntimeError when
\* the client was closed.
Sent(ex) == IF client = "closed" THEN [kind |-> "RuntimeError"] ELSE ex
\* One request as issued, with what became of it.
Request(method, path, json, ex) ==
    [method |-> method, path |-> path, json |-> json, outcome |-> Sent(ex)]

Invoke(tool, args, reqs, out) ==
    /\ tool_call' = [tool |-> tool, args |-> args]
    /\ requests' = reqs
    /\ tool_out' = out
    /\ UNCHANGED client

\* resp.raise_for_status()
IsSuccess(status) == status >= 200 /\ status <= 299

\* resp.json()
Decodes(body) == body.shape # "undecodable"

\* EvaluationResult(**kwargs) of hud.tools.types: reward, done, content, info
\* and isError with their defaults; it rejects what is no such object.
EvaluationResultDefaults ==
    [reward |-> 0, done |-> FALSE, content |-> None, isError |-> FALSE]
EvaluationResultAccepts(body) == body.shape = "object"
EvaluationResult(fields) ==
    [k \in DOMAIN EvaluationResultDefaults |->
        IF k \in DOMAIN fields THEN fields[k] ELSE EvaluationResultDefaults[k]]

\* server/main.py lines 34-37
init(ex) ==
    /\ tool_call' = [tool |-> "init", args |-> None]
    /\ requests' = <<Request("GET", "/health", None, ex)>>
    /\ tool_out' = IF Sent(ex).kind # "response" THEN Failure(Sent(ex)) ELSE Value(None)
    /\ UNCHANGED client

\* server/main.py lines 40-42
cleanup ==
    /\ client' = "closed"
    /\ tool_call' = [tool |-> "cleanup", args |-> None]
    /\ requests' = <<>>
    /\ tool_out' = Value(None)

\* A tool that posts and returns a fixed text whatever the response is.
PostAndConfirm(tool, path, json, text, ex) ==
    Invoke(tool, json, <<Request("POST", path, json, ex)>>,
           IF Sent(ex).kind # "response" THEN Failure(Sent(ex)) ELSE Value(text))

\* A tool that posts and returns resp.json().
PostAndDecodeSwallows(tool, path, json, ex) ==
    Invoke(tool, json, <<Request("POST", path, json, ex)>>,
           IF Sent(ex).kind # "response" THEN Value(<<>>)
           ELSE IF ~Decodes(ex.body) THEN Failure([kind |-> "JSONDecodeError"])
           ELSE Value(ex.body))
PostAndDecode(tool, path, json, ex) ==
    Invoke(tool, json, <<Request("POST", path, json, ex)>>,
           IF Sent(ex).kind # "response" THEN Failure(Sent(ex))
           ELSE IF ~Decodes(ex.body) THEN Failure([kind |-> "JSONDecodeError"])
           ELSE Value(ex.body))

tool_setup(ex) ==
    PostAndConfirm("setup", "/setup", None, "Environment setup complete", ex)

tool_search_company(query, ex) ==
    PostAndDecode("search_company", "/search_company", [query |-> query], ex)

tool_get_filings(ticker, form_type, limit, ex) ==
    PostAndDecode("get_filings", "/get_filings",
                  [ticker |-> ticker, form_type |-> form_type, limit |-> limit], ex)

\* data = resp.json(); return data.get("content", "")
tool_get_filing_content(filing_url, ex) ==
    Invoke("get_filing_content", [filing_url |-> filing_url],
           <<Request("POST", "/get_filing_content", [filing_url |-> filing_url], ex)>>,
           IF Sent(ex).kind # "response" THEN Failure(Sent(ex))
           ELSE IF ~Decodes(ex.body) THEN Failure([kind |-> "JSONDecodeError"])
           ELSE IF ex.body.shape = "list" THEN Failure([kind |-> "AttributeError"])
           ELSE IF "content" \in DOMAIN ex.body.fields
                  THEN Value(ex.body.fields.content)
                  ELSE Value(""))

tool_get_recent_filings(identifier, form_type, limit, ex) ==
    PostAndDecode("get_recent_filings", "/get_recent_filings",
                  [identifier |-> identifier, form_type |-> form_type,
                   limit |-> limit], ex)

tool_get_filing_content_by_accession(identifier, accession_number, ex) ==
    PostAndDecode("get_filing_content_by_accession", "/get_filing_content_by_accession",
                  [identifier |-> identifier, accession_number |-> accession_number], ex)

tool_analyze_8k(identifier, accession_number, ex) ==
    PostAndDecode("analyze_8k", "/analyze_8k",
                  [identifier |-> identifier, accession_number |-> accession_number], ex)

tool_get_filing_sections(identifier, accession_number, ex) ==
    PostAndDecode("get_filing_sections", "/get_filing_sections",
                  [identifier |-> identifier, accession_number |-> accession_number], ex)

tool_get_financials(identifier, accession_number, ex) ==
    PostAndDecode("get_financials", "/get_financials",
                  [identifier |-> identifier, accession_number |-> accession_number], ex)

tool_get_segment_data(identifier, accession_number, ex) ==
    PostAndDecode("get_segment_data", "/get_segment_data",
                  [identifier |-> identifier, accession_number |-> accession_number], ex)

tool_answer(final_answer, ex) ==
    PostAndConfirm("answer", "/answer", [final_answer |-> final_answer],
                   <<"Answer submitted: ", final_answer>>, ex)

\* Lines 211-214: what the try block raises, if anything.
TryEvaluate(ex) ==
    IF Sent(ex).kind # "response" THEN Failure(Sent(ex))
    ELSE IF ~IsSuccess(ex.status)
      THEN Failure([kind |-> "HTTPStatusError", status |-> ex.status])
    ELSE IF ~Decodes(ex.body) THEN Failure([kind |-> "JSONDecodeError"])
    ELSE IF ~EvaluationResultAccepts(ex.body) THEN Failure([kind |-> "ValidationError"])
    ELSE Value(EvaluationResult(ex.body.fields))

\* except Exception as e: which failures of the try block the handler catches.
CatchesTransportOnly(e) == e.kind \in {"ConnectError", "ReadTimeout"}
Catches(e) == TRUE

\* Lines 217-219: the result built from the failure.
ErrorResult(e) ==
    EvaluationResult([reward |-> 0, done |-> TRUE,
                      content |-> <<"Evaluation error: ", e>>, isError |-> TRUE])

tool_evaluate(rubric, ex) ==
    Invoke("evaluate", [rubric |-> rubric],
           <<Request("POST", "/evaluate", [rubric |-> rubric], ex)>>,
           LET tried == TryEvaluate(ex)
           IN  IF tried.kind = "raise" /\ Catches(tried.exc)
                 THEN Value(ErrorResult(tried.exc))
                 ELSE tried)

\* The functions registered with @mcp.tool().
Tools == {"setup", "search_company", "get_filings", "get_filing_content",
          "get_recent_filings", "get_filing_content_by_accession", "analyze_8k",
          "get_filing_sections", "get_financials", "get_segment_data", "answer",
          "evaluate"}

Identifiers == {"TSLA"}
AccessionNumbers == {"a1"}

\* =========================================================================
\* Specifications
\* =========================================================================
vars == <<retryVars, backendVars, frontVars>>

\* One call of call_with_exponential_backoff; the backend stands still.
InitRetry ==
    /\ max_retries \in -1..MaxRetriesBound
    /\ initial_delay \in 0..MaxDelayBound
    /\ max_delay \in 0..MaxDelayBound
    /\ exponential_base \in 0..MaxBaseBound
    /\ attempt = 0
    /\ delay = initial_delay
    /\ last_exception = NoException
    /\ pc = "start"
    /\ result = [kind |-> "none"]
    /\ events = <<>>
    /\ search_count = 0
    /\ fetch_count = 0
    /\ submitted_answer = None
    /\ grading = <<>>
    /\ last = [op |-> "start", req |-> None, pre |-> InitialState,
               inflight |-> <<>>, calls |-> <<>>]
    /\ resp = Pending
    /\ answered = None
    /\ succeeded = [search |-> 0, fetch |-> 0]
    /\ client = "open"
    /\ tool_call = [tool |-> "start", args |-> None]
    /\ requests = <<>>
    /\ tool_out = [kind |-> "none"]

NextRetry ==
    \/ Enter /\ UNCHANGED <<backendVars, frontVars>>
    \/ \E out \in FuncOutcomes : Attempt(out) /\ UNCHANGED <<backendVars, frontVars>>
    \/ Sleep /\ UNCHANGED <<backendVars, frontVars>>
    \/ Exit /\ UNCHANGED <<backendVars, frontVars>>

SpecRetry == InitRetry /\ [][NextRetry]_vars

\* The backend after the module is loaded (state = _EnvState()); no handler
\* calls call_with_exponential_backoff, which stands still with its defaults.
Init ==
    /\ max_retries = DefaultMaxRetries
    /\ initial_delay = DefaultInitialDelay
    /\ max_delay = DefaultMaxDelay
    /\ exponential_base = DefaultBase
    /\ attempt = 0
    /\ delay = DefaultInitialDelay
    /\ last_exception = NoException
    /\ pc = "start"
    /\ result = [kind |-> "none"]
    /\ events = <<>>
    /\ search_count = 0
    /\ fetch_count = 0
    /\ submitted_answer = None
    /\ grading = <<>>
    /\ last = [op |-> "start", req |-> None, pre |-> InitialState,
               inflight |-> <<>>, calls |-> <<>>]
    /\ resp = Pending
    /\ answered = None
    /\ succeeded = [search |-> 0, fetch |-> 0]
    /\ client = "open"
    /\ tool_call = [tool |-> "start", args |-> None]
    /\ requests = <<>>
    /\ tool_out = [kind |-> "none"]

Next ==
    \/ setup /\ UNCHANGED <<retryVars, frontVars>>
    \/ \E q \in Queries, out \in LibOutcomes(Companies) :
          search_company(q, out) /\ UNCHANGED <<retryVars, frontVars>>
    \/ \E t \in Queries, f \in FormTypes, l \in Limits, out \in LibOutcomes(FilingLists) :
          get_filings(t, f, l, out) /\ UNCHANGED <<retryVars, frontVars>>
    \/ \E u \in SampleUrls, out \in LibOutcomes(Texts) :
          get_filing_content(u, out) /\ UNCHANGED <<retryVars, frontVars>>
    \/ \E a \in Answers : answer(a) /\ UNCHANGED <<retryVars, frontVars>>
    \/ \E r \in Rubrics, b \in BuildOutcomes : evaluate(r, b) /\ UNCHANGED <<retryVars, frontVars>>
    \/ \E i \in 1..MaxInflight, out \in GradeOutcomes :
          evaluate_resume(i, out) /\ UNCHANGED <<retryVars, frontVars>>

Spec == Init /\ [][Next]_vars

\* The backend serving /setup and /get_filing_content over all filing URLs,
\* one fetch after the start and after each setup.
NextFetch ==
    \/ setup /\ UNCHANGED <<retryVars, frontVars>>
    \/ /\ last.op \in {"start", "setup"}
       /\ \E u \in Urls, out \in LibOutcomes(Texts) : get_filing_content(u, out)
       /\ UNCHANGED <<retryVars, frontVars>>

SpecFetch == Init /\ [][NextFetch]_vars

\* The front's tools, each invocation with one outcome of its request.
NextFront ==
    \/ \E ex \in Exchanges("GET", "/health") :
          init(ex) /\ UNCHANGED <<retryVars, backendVars>>
    \/ cleanup /\ UNCHANGED <<retryVars, backendVars>>
    \/ \E ex \in Exchanges("POST", "/setup") :
          tool_setup(ex) /\ UNCHANGED <<retryVars, backendVars>>
    \/ \E q \in Queries, ex \in Exchanges("POST", "/search_company") :
          tool_search_company(q, ex) /\ UNCHANGED <<retryVars, backendVars>>
    \/ \E t \in Queries, f \in FormTypes, l \in Limits,
          ex \in Exchanges("POST", "/get_filings") :
          tool_get_filings(t, f, l, ex) /\ UNCHANGED <<retryVars, backendVars>>
    \/ \E u \in SampleUrls, ex \in Exchanges("POST", "/get_filing_content") :
          tool_get_filing_content(u, ex) /\ UNCHANGED <<retryVars, backendVars>>
    \/ \E id \in Identifiers \cup {None}, f \in FormTypes, l \in {50},
          ex \in Exchanges("POST", "/get_recent_filings") :
          tool_get_recent_filings(id, f, l, ex) /\ UNCHANGED <<retryVars, backendVars>>
    \/ \E id \in Identifiers, acc \in AccessionNumbers,
          ex \in Exchanges("POST", "/get_filing_content_by_accession") :
          tool_get_filing_content_by_accession(id, acc, ex)
            /\ UNCHANGED <<retryVars, backendVars>>
    \/ \E id \in Identifiers, acc \in AccessionNumbers,
          ex \in Exchanges("POST", "/analyze_8k") :
          tool_analyze_8k(id, acc, ex) /\ UNCHANGED <<retryVars, backendVars>>
    \/ \E id \in Identifiers, acc \in AccessionNumbers,
          ex \in Exchanges("POST", "/get_filing_sections") :
          tool_get_filing_sections(id, acc, ex) /\ UNCHANGED <<retryVars, backendVars>>
    \/ \E id \in Identifiers, acc \in AccessionNumbers,
          ex \in Exchanges("POST", "/get_financials") :
          tool_get_financials(id, acc, ex) /\ UNCHANGED <<retryVars, backendVars>>
    \/ \E id \in Identifiers, acc \in AccessionNumbers,
          ex \in Exchanges("POST", "/get_segment_data") :
          tool_get_segment_data(id, acc, ex) /\ UNCHANGED <<retryVars, backendVars>>
    \/ \E a \in Answers, ex \in Exchanges("POST", "/answer") :
          tool_answer(a, ex) /\ UNCHANGED <<retryVars, backendVars>>
    \/ \E r \in Rubrics, ex \in Exchanges("POST", "/evaluate") :
          tool_evaluate(r, ex) /\ UNCHANGED <<retryVars, backendVars>>

SpecFront == Init /\ [][NextFront]_vars

\* =========================================================================
\* Claims about call_with_exponential_backoff (checked under SpecRetry)
\* =========================================================================

\* C1: after k <= max_retries rate-limited attempts the policy goes on to
\* attempt k+1, having waited exactly k times; when that attempt succeeds the
\* policy returns its value, the history being k rate-limited attempts, k
\* waits and the one successful attempt, which is the last thing that happens.
C1_SuccessAfterRateLimits ==
    /\ (AllRateLimited(Calls) /\ NumAttempts <= max_retries)
          => /\ pc \in {"start", "call", "sleep"}
             /\ pc = "call" => NumWaits = NumAttempts
    /\ \A i \in 1..NumAttempts :
          Calls[i].out.kind = "ok"
            => /\ i = NumAttempts
               /\ i <= max_retries + 1
               /\ AllRateLimited(SubSeq(Calls, 1, i - 1))
               /\ NumWaits = i - 1
               /\ Len(events) = 2 * i - 1
               /\ Last(events) = Calls[i]
               /\ pc = "returned"
               /\ result = [kind |-> "return", value |-> Calls[i].out.value]

\* C1 witness: two rate-limited attempts, then a success that was returned.
C1_Witness ==
    /\ pc = "returned"
    /\ NumAttempts = 3
    /\ NumWaits = 2
    /\ max_retries = 2
    /\ result = [kind |-> "return", value |-> "v2"]

\* C2: when every attempt is rate-limited and max_retries+1 attempts have
\* been made, the policy has raised the last attempt's failure after exactly
\* max_retries waits; the last thing that happened is the failed attempt.
C2_ExhaustedRaisesLast ==
    (NumAttempts >= 1 /\ AllRateLimited(Calls) /\ NumAttempts > max_retries)
      => /\ NumAttempts = max_retries + 1
         /\ NumWaits = max_retries
         /\ Last(events) = Last(Calls)
         /\ pc = "raised"
         /\ result = [kind |-> "raise", exc |-> Last(Calls).out,
                       attempt |-> max_retries]

\* C2 witness: max_retries = 2, three rate-limited attempts, raised.
C2_Witness ==
    /\ pc = "raised"
    /\ max_retries = 2
    /\ NumAttempts = 3
    /\ AllRateLimited(Calls)

\* C3: an attempt that fails with anything but a rate-limit error is the last
\* thing that happens: the policy has raised that very failure, with no wait
\* and no attempt after it; on the first attempt that is one attempt and no
\* wait, whatever max_retries is.
C3_OtherFailureRaisesAtOnce ==
    \A i \in 1..NumAttempts :
       (IsFailure(Calls[i].out)
          /\ ~(Calls[i].out.kind = "HTTPStatusError"
                /\ Calls[i].out.status = RateLimitStatus))
         => /\ i = NumAttempts
            /\ Last(events) = Calls[i]
            /\ NumWaits = i - 1
            /\ pc = "raised"
            /\ result = [kind |-> "raise", exc |-> Calls[i].out,
                          attempt |-> i - 1]
            /\ i = 1 => (NumAttempts = 1 /\ NumWaits = 0)

\* C3 witness: a status-500 failure on the attempt after one retry, raised
\* with retries left.
C3_Witness ==
    /\ pc = "raised"
    /\ NumAttempts = 2
    /\ max_retries = 3
    /\ Last(Calls).out = [kind |-> "HTTPStatusError", status |-> 500]

\* C4 (as claimed): the i-th wait (i = 0, 1, ...) lasts
\* min(initial_delay * base^i, max_delay), so no wait exceeds max_delay.
C4_WaitsAreCappedPowers ==
    \A i \in 1..NumWaits :
       /\ Sleeps[i].d = Min(initial_delay * Pow(exponential_base, i - 1), max_delay)
       /\ Sleeps[i].d <= max_delay

\* =========================================================================
\* Claims about the backend handlers (checked under Spec and SpecFetch)
\* =========================================================================
GradeCalls(calls) == SelectSeq(calls, LAMBDA c : c.fn = "Rubric.grade")

\* C5: an evaluate request that finds submitted_answer null is answered
\* reward 0.0, done = false and a message carrying the search_count and
\* fetch_count of that state, and makes no call of the grading library.
C5_NoAnswerShortCircuit ==
    (last.op = "evaluate" /\ last.pre.submitted_answer = None)
      => /\ resp.status = 200
         /\ resp.body = [reward |-> 0,
                         content |-> <<"No answer submitted. Searches: ",
                                       last.pre.search_count, ", Fetches: ",
                                       last.pre.fetch_count>>,
                         done |-> FALSE]
         /\ last.calls = <<>>
         /\ search_count = last.pre.search_count
         /\ fetch_count = last.pre.fetch_count

\* C5 witness: evaluate with no answer after two searches and one fetch.
C5_Witness ==
    /\ last.op = "evaluate"
    /\ last.pre.submitted_answer = None
    /\ last.pre.search_count = 2
    /\ last.pre.fetch_count = 1
    /\ resp.status = 200

\* C6: answer can be requested in every state, is answered ok and leaves
\* submitted_answer at its argument; an
\* evaluate request made when the latest answer since the latest setup was X
\* hands the supplied rubric to the grading library and, the rubric built,
\* calls its grade exactly once, with X; when grade reports a score the
\* request is answered done = true with that score, without a further call.
C6_AnswerThenEvaluateGrades ==
    /\ \A a \in Answers : ENABLED answer(a)
    /\ last.op = "answer"
         => /\ submitted_answer = last.req
            /\ resp = [status |-> 200,
                       body |-> [ok |-> TRUE, message |-> "Answer submitted"]]
    /\ (last.op = "evaluate" /\ answered # None)
         => /\ Len(last.calls) >= 1
            /\ last.calls[1].fn = "Rubric.from_dict"
            /\ last.calls[1].arg = last.req
            /\ last.calls[1].out.kind = "ok"
                 => /\ GradeCalls(last.calls)
                         = <<[fn |-> "Rubric.grade", arg |-> answered,
                              rubric |-> last.req]>>
                    /\ Len(grading) >= 1
                    /\ Last(grading) = [submitted |-> answered, rubric |-> last.req]
    /\ (last.op = "evaluate_resume" /\ last.out.kind = "ok")
         => /\ resp.status = 200
            /\ resp.body.done = TRUE
            /\ resp.body.reward = last.out.value.score
            /\ last.calls = <<>>

\* C6 witness: answer(""), then answer("X"), an evaluate whose grading of "X"
\* under rubric2 reported the score 1.
C6_Witness ==
    /\ last.op = "evaluate_resume"
    /\ last.task = [submitted |-> "X", rubric |-> "rubric2"]
    /\ last.out.kind = "ok"
    /\ last.out.value.score = 1
    /\ resp.status = 200
    /\ resp.body.reward = 1

\* C8: setup can be requested in every state; it is answered {ok: true} and
\* leaves search_count = 0, fetch_count = 0 and submitted_answer null, which
\* a second setup leaves as they are.
C8_SetupResets ==
    /\ ENABLED setup
    /\ last.op = "setup"
         => /\ Snapshot = [search_count |-> 0, fetch_count |-> 0,
                           submitted_answer |-> None]
            /\ resp = [status |-> 200, body |-> [ok |-> TRUE]]
            /\ reset(Snapshot) = Snapshot
            /\ reset(reset(last.pre)) = reset(last.pre)

\* C8 witness: setup in a state with searches, a fetch and an answer.
C8_Witness ==
    /\ last.op = "setup"
    /\ last.pre = [search_count |-> 2, fetch_count |-> 1, submitted_answer |-> "X"]
    /\ search_count = 0

\* The operation named in the detail of each endpoint's 500.
C9_OperationName ==
    [search_company |-> "Company search", get_filings |-> "Get filings",
     get_filing_content |-> "Get filing content"]
\* C9: a search_company or get_filings request whose library call returns
\* adds 1 to search_count, a get_filing_content request whose library call
\* returns adds 1 to fetch_count, and neither changes another field; when
\* the library call raises, the request is answered 500 with the detail
\* "<operation> failed: <class>: <message>" and the session state is as before.
C9_CountersAndProviderErrors ==
    (last.op \in DOMAIN C9_OperationName /\ Len(last.calls) = 1)
      => LET out == last.calls[1].out
         IN  IF out.kind = "ok"
               THEN /\ resp.status = 200
                    /\ submitted_answer = last.pre.submitted_answer
                    /\ IF last.op = "get_filing_content"
                         THEN /\ fetch_count = last.pre.fetch_count + 1
                              /\ search_count = last.pre.search_count
                         ELSE /\ search_count = last.pre.search_count + 1
                              /\ fetch_count = last.pre.fetch_count
               ELSE /\ resp = [status |-> 500,
                               body |-> [detail |-> <<C9_OperationName[last.op],
                                                      " failed: ", out.err.cls,
                                                      ": ", out.err.msg>>]]
                    /\ Snapshot = last.pre

\* C9 witness: get_filings fails in a state with a search, a fetch and an
\* answer behind it.
C9_Witness ==
    /\ last.op = "get_filings"
    /\ last.calls[1].out.kind = "raise"
    /\ last.pre = [search_count |-> 1, fetch_count |-> 1, submitted_answer |-> "X"]
    /\ resp.status = 500

\* The indices of the path segments longer than 10 characters with a hyphen.
C10_Matching(url) ==
    {i \in 1..Len(Split(UrlPath(url))) :
        /\ Len(Split(UrlPath(url))[i]) > 10
        /\ \E k \in 1..Len(Split(UrlPath(url))[i]) : Split(UrlPath(url))[i][k] = "-"}
\* C10 (as claimed): when some path segment of the filing URL is longer than
\* 10 characters and holds a hyphen, the filings library is called with the
\* first such segment, its hyphens removed; when there is none, the request
\* is answered 400, the library is not called and fetch_count is unchanged.
C10_AccessionOrClientError ==
    last.op = "get_filing_content"
      => LET parts == Split(UrlPath(last.req))
             hits == C10_Matching(last.req)
         IN  IF hits # {}
               THEN LET first == CHOOSE i \in hits : \A j \in hits : i <= j
                    IN  /\ Len(last.calls) = 1
                        /\ last.calls[1].arg
                             = SelectSeq(parts[first], LAMBDA c : c # "-")
               ELSE /\ resp.status = 400
                    /\ last.calls = <<>>
                    /\ fetch_count = last.pre.fetch_count

\* =========================================================================
\* Claims about the front (checked under SpecFront)
\* =========================================================================

\* The exception each failed outcome of the request raises in the try block,
\* and the outcomes that count as failed.
C7_FailureName(o) ==
    IF o.kind # "response" THEN o.kind
    ELSE IF o.status < 200 \/ o.status > 299 THEN "HTTPStatusError"
    ELSE IF o.body.shape = "undecodable" THEN "JSONDecodeError"
    ELSE "ValidationError"
C7_Failed(o) ==
    \/ o.kind # "response"
    \/ o.status < 200
    \/ o.status > 299
    \/ o.body.shape \in {"undecodable", "list", "illtyped"}
\* C7: the evaluate tool issues one request and always returns a result; when
\* the request fails (no connection, a failure in transit, a status that is
\* no success, a body that is no JSON or no evaluation result) the result has
\* reward = 0.0, done = true, isError = true and a message with the failure.
C7_EvaluateToolNeverRaises ==
    tool_call.tool = "evaluate"
      => /\ Len(requests) = 1
         /\ tool_out.kind = "return"
         /\ C7_Failed(requests[1].outcome)
              => /\ tool_out.value.reward = 0
                 /\ tool_out.value.done = TRUE
                 /\ tool_out.value.isError = TRUE
                 /\ tool_out.value.content[1] = "Evaluation error: "
                 /\ tool_out.value.content[2].kind = C7_FailureName(requests[1].outcome)

\* C7 witness: the evaluate tool with the backend unreachable.
C7_Witness ==
    /\ tool_call.tool = "evaluate"
    /\ requests[1].outcome.kind = "ConnectError"
    /\ tool_out.kind = "return"
    /\ tool_out.value.isError = TRUE

\* ------------------------------------------------------------------ C11
\* p is the string of the first StrLen(p) characters of t.
C11_IsPrefix(p, t) ==
    /\ Len(p) <= Len(t)
    /\ \A j \in 1..Len(p) :
          /\ p[j].ch = t[j].ch
          /\ IF j < Len(p) THEN p[j].n = t[j].n ELSE p[j].n <= t[j].n /\ p[j].n > 0

\* C11: when get_filing_content has fetched a filing text of length n, the
\* content it returns is the text itself if n <= 50,000, and otherwise the
\* first 50,000 characters of the text followed by the truncation marker.
C11_TruncatesAboveLimit ==
    (last.op = "get_filing_content" /\ Len(last.calls) = 1
         /\ last.calls[1].out.kind = "ok") =>
      LET text == last.calls[1].out.value
          content == resp.body.content
          cut == Len(content) - Len(TruncationMarker)
      IN  /\ resp.status = 200
          /\ IF StrLen(text) <= max_length
                THEN content = text
                ELSE /\ cut >= 1
                     /\ SubSeq(content, cut + 1, Len(content)) = TruncationMarker
                     /\ StrLen(SubSeq(content, 1, cut)) = max_length
                     /\ C11_IsPrefix(SubSeq(content, 1, cut), text)

\* A text one character over the limit has come back cut, and the state
\* shows the limit itself is left whole.
C11_Witness ==
    /\ last.op = "get_filing_content" /\ Len(last.calls) = 1
    /\ last.calls[1].out.kind = "ok"
    /\ StrLen(last.calls[1].out.value) = max_length + 1
    /\ resp.body.content = <<Run("a", max_length)>> \o TruncationMarker

\* ------------------------------------------------------------------ C12
\* C12: call_with_exponential_backoff returns a value only when an attempt of
\* the operation returned that value, and that attempt is the last one made;
\* once it has ended without such an attempt it has raised. With
\* max_retries < 0 no attempt is made and it raises the RuntimeError of line
\* 89, never a default value.
C12_ReturnsOnlyAnAttemptsValue ==
    /\ result.kind \in {"none", "return", "raise"}
    /\ (result.kind = "none") = (pc \in {"start", "call", "sleep", "exit"})
    /\ result.kind = "return" =>
          /\ pc = "returned"
          /\ NumAttempts >= 1
          /\ Last(Calls).out.kind = "ok"
          /\ result.value = Last(Calls).out.value
    /\ pc = "raised" =>
          /\ result.kind = "raise"
          /\ \A i \in 1..NumAttempts : Calls[i].out.kind # "ok"
    /\ max_retries < 0 => NumAttempts = 0
    /\ (pc \in {"returned", "raised"} /\ NumAttempts = 0) =>
          /\ max_retries < 0
          /\ result = [kind |-> "raise", exc |-> [kind |-> "RuntimeError"],
                       attempt |-> -1]

\* The helper was called with max_retries = -1 and has ended: no attempt, no
\* sleep, the RuntimeError raised.
C12_Witness ==
    /\ max_retries = -1
    /\ pc = "raised"
    /\ events = <<>>
    /\ result.kind = "raise" /\ result.exc.kind = "RuntimeError"

\* ------------------------------------------------------------------ C13
\* The filings library's upstream rate-limit signal among LibErrors.
C13_RateLimited(e) == e.cls = "HTTPStatusError" /\ e.msg = "429 Too Many Requests"

\* C13: when the first call of the filings library in search_company,
\* get_filings or get_filing_content raises the upstream rate-limit signal,
\* the handler calls the library again (the retry policy allows
\* DefaultMaxRetries > 0 retries); when it raises anything else the handler
\* makes no further call and answers 500.
C13_RateLimitRetriedOthersNot ==
    (last.op \in {"search_company", "get_filings", "get_filing_content"}
         /\ Len(last.calls) >= 1 /\ last.calls[1].out.kind = "raise") =>
      IF C13_RateLimited(last.calls[1].out.err)
        THEN DefaultMaxRetries > 0 => Len(last.calls) >= 2
        ELSE Len(last.calls) = 1 /\ resp.status = 500

\* ------------------------------------------------------------------ C14
\* C14: in every reachable state, whatever the order in which the handlers
\* and the suspended evaluations run, search_count is the number of
\* search_company and get_filings requests answered 200 since the latest
\* setup and fetch_count the number of get_filing_content requests answered
\* 200 since then; neither is negative, and a step that lowers one is a setup.
C14_CountersCountSuccesses ==
    /\ search_count = succeeded.search
    /\ fetch_count = succeeded.fetch
    /\ search_count >= 0 /\ fetch_count >= 0
    /\ (search_count < last.pre.search_count \/ fetch_count < last.pre.fetch_count)
          => last.op = "setup"

\* Two searches and a fetch have succeeded since the latest setup and a
\* content fetch has just failed, all while an evaluate is suspended in
\* grading.
C14_Witness ==
    /\ Len(grading) = 1
    /\ succeeded = [search |-> 2, fetch |-> 1]
    /\ last.op = "get_filing_content" /\ resp.status = 500
    /\ search_count = 2 /\ fetch_count = 1

\* ------------------------------------------------------------------ C15
\* C15: every tool of the front posts to a path the backend serves, so the
\* request of a tool invocation is never answered with the router's 404
\* "Not Found".
C15_EveryToolHasItsRoute ==
    tool_call.tool \in Tools =>
      \A i \in 1..Len(requests) :
         /\ requests[i].method = "POST"
         /\ requests[i].path \in BackendPostRoutes
         /\ ~(requests[i].outcome.kind = "response"
                 /\ requests[i].outcome.status = 404
                 /\ requests[i].outcome.body = NotFoundBody)

\* ------------------------------------------------------------------ C16
\* C16: every tool invocation calls http_client.post exactly once; for every
\* tool other than evaluate, when that request fails in transport (no
\* connection, a failure in transit, the client closed) the tool raises that
\* failure to its caller and returns no value.
C16_OneRequestAndTransportFailuresPropagate ==
    tool_call.tool \in Tools =>
      /\ Len(requests) = 1
      /\ requests[1].method = "POST"
      /\ (tool_call.tool # "evaluate" /\ requests[1].outcome.kind # "response") =>
            /\ tool_out.kind = "raise"
            /\ tool_out = Failure(requests[1].outcome)

\* The search_company tool with the backend unreachable: one request, the
\* connection error raised to the caller.
C16_Witness ==
    /\ tool_call.tool = "search_company"
    /\ Len(requests) = 1
    /\ requests[1].outcome.kind = "ConnectError"
    /\ tool_out = Failure([kind |-> "ConnectError"])

\* ------------------------------------------------------------------ C17
\* C17: evaluate hands the grading library the answer stored when it began,
\* which is never None; an answer or a setup request that runs while an
\* evaluate is suspended in grading leaves that evaluate and the answer it
\* grades as they were; and when grading returns, the evaluate answers with
\* the reward of the evaluation and done = true whatever the state holds by
\* then.
C17_GradesTheAnswerReadAtStart ==
    /\ \A i \in 1..Len(grading) : grading[i].submitted # None
    /\ last.op = "evaluate" =>
          IF GradeCalls(last.calls) # <<>>
            THEN /\ GradeCalls(last.calls)[1].arg = last.pre.submitted_answer
                 /\ last.pre.submitted_answer # None
                 /\ grading = Append(last.inflight,
                                     [submitted |-> last.pre.submitted_answer,
                                      rubric |-> last.req])
            ELSE grading = last.inflight
    /\ last.op \in {"answer", "setup"} => grading = last.inflight
    /\ last.op = "evaluate_resume" =>
          /\ \E i \in 1..Len(last.inflight) : last.inflight[i] = last.task
          /\ last.task.submitted # None
          /\ last.out.kind = "ok" =>
                /\ resp.status = 200
                /\ resp.body.done = TRUE
                /\ resp.body.reward = last.out.value.score

\* An evaluate that began with the answer "X" has come back from grading
\* with done = true after a setup, run in between, cleared the answer.
C17_Witness ==
    /\ last.op = "evaluate_resume"
    /\ last.out.kind = "ok"
    /\ last.task.submitted = "X"
    /\ submitted_answer = None
    /\ answered = None
    /\ resp.status = 200 /\ resp.body.done = TRUE /\ resp.body.reward = 1

\* ------------------------------------------------------------------ C18
\* C18: neither part of evaluate (up to its response or its await, and from
\* its await on) changes search_count, fetch_count or submitted_answer; with
\* no answer stored it makes no call of the grading library, and with an
\* answer stored and the rubric accepted it makes exactly one, with the
\* answer that is stored before and after. After either part another
\* evaluate can be begun (while fewer than MaxInflight are suspended).
C18_EvaluateIsReadOnly ==
    /\ last.op \in {"evaluate", "evaluate_resume"} => Snapshot = last.pre
    /\ (last.op \in {"evaluate", "evaluate_resume"} /\ Len(grading) < MaxInflight) =>
          \A r \in Rubrics, b \in BuildOutcomes : ENABLED evaluate(r, b)
    /\ last.op = "evaluate" =>
          IF last.pre.submitted_answer = None
            THEN last.calls = <<>>
            ELSE /\ Len(GradeCalls(last.calls)) <= 1
                 /\ (Len(last.calls) >= 1 /\ last.calls[1].out.kind = "ok") =>
                       /\ Len(GradeCalls(last.calls)) = 1
                       /\ GradeCalls(last.calls)[1].arg = submitted_answer

\* An evaluate has just handed the stored answer "X" to the grading library,
\* once, after a search and a fetch, and the state is as it found it.
C18_Witness ==
    /\ last.op = "evaluate"
    /\ Len(GradeCalls(last.calls)) = 1
    /\ GradeCalls(last.calls)[1].arg = "X"
    /\ submitted_answer = "X"
    /\ search_count = 1 /\ fetch_count = 1
    /\ Snapshot = last.pre

====
